---- MODULE Spec2Model ----
(***************************************************************************)
(* Model of src/app.py (Jewelry AI Automator).                             *)
(*                                                                         *)
(* Two state machines share this module:                                   *)
(*   Spec / FairSpec       the "Analyze & Generate Batch" button handler:  *)
(*                         credential check, vision call, prompt list,     *)
(*                         run_generations (waves of chunk_size jobs),     *)
(*                         gallery and zip export;                         *)
(*   SpecParse / FairParse parse_dynamic_prompt, one step per evaluation   *)
(*                         of the while test and per loop body.            *)
(* Strings that the code inspects are sequences of one-character strings.  *)
(***************************************************************************)
EXTENDS Integers, Sequences, FiniteSets, TLC

VARIABLES
    uploaded_file,   \* st.file_uploader returned a file (line 63)
    fal_key,         \* os.environ["FAL_KEY"] after the sidebar ran (lines 49-53)
    batch_size,      \* select_slider value (line 56)
    style_art_deco,  \* checkbox (line 59)
    style_minimal,   \* checkbox (line 60)
    style_pave,      \* checkbox (line 61)
    pc,              \* position of the button handler
    description,     \* jewelry_info['output'] (line 90)
    prompts_to_run,  \* list of (base, style_name) (lines 98-110)
    job,             \* per task of `tasks`: state of its coroutine / remote job
    url_body,        \* per task: the bytes the remote put behind its image URL
    i,               \* loop variable of line 137 (0-based start of the chunk)
    pos,             \* number of handlers of batch_responses already processed
    completed,       \* `completed` (line 135)
    progress,        \* value last given to progress_bar.progress, <<num, den>>
    status_text,     \* last status line, <<len(results), len(prompts_to_run)>>
    results,         \* `results` (line 113)
    archive,         \* entries written to the zip, in order (lines 171-174)
    vision_calls,    \* requests issued to VISION_ENDPOINT
    gen_calls,       \* requests issued to FLUX_EDIT_ENDPOINT
    template,        \* argument of parse_dynamic_prompt
    prompt,          \* local `prompt` of parse_dynamic_prompt
    ppc              \* position inside parse_dynamic_prompt

batchVars == <<uploaded_file, fal_key, batch_size, style_art_deco, style_minimal,
               style_pave, pc, description, prompts_to_run, job, url_body, i, pos,
               completed, progress, status_text, results, archive, vision_calls, gen_calls>>
parseVars == <<template, prompt, ppc>>
vars == <<batchVars, parseVars>>

(***************************************************************************)
(* Bounds of the model.                                                    *)
(***************************************************************************)
MaxJobs == 5     \* only settings with batch_size * #styles <= MaxJobs are explored
MaxLen == 4      \* longest template given to parse_dynamic_prompt

(***************************************************************************)
(* Program constants and small input domains.                              *)
(***************************************************************************)
chunk_size == 4
BatchSizeOptions == {1, 5, 10, 25}
Unset == "<unset>"
KeyValues == {"", "key"}
Bytes == {"img_a", "img_b"}          \* images the remote service can render
ErrorBody == "http_error_page"       \* body of a non-2xx answer to the download
NoBytes == "<nothing>"
Descriptions == {"gold ring"}        \* what the vision model can answer
NoDescription == "<none>"

Min(a, b) == IF a < b THEN a ELSE b

(***************************************************************************)
(* Sidebar, lines 49-53: the typed key wins, else a configured secret is   *)
(* copied, else the process environment is left as it was.                 *)
(***************************************************************************)
SidebarKey(api_key_input, secret, env0) ==
    IF api_key_input # "" THEN api_key_input
    ELSE IF secret # Unset THEN secret
    ELSE env0

\* `not os.environ.get("FAL_KEY")` (line 75)
KeyMissing(k) == k = Unset \/ k = ""

(***************************************************************************)
(* Lines 98-110: batch_size copies of (base, style_name) per ticked style, *)
(* in the fixed order Art Deco, Minimalist, Pave.                          *)
(***************************************************************************)
Copies(n, x) == [k \in 1..n |-> x]

StylePrompts(ticked, name, desc, n) ==
    IF ticked THEN Copies(n, <<<<desc, name>>, name>>) ELSE <<>>

PreparePrompts(desc, n, deco, minimal, pave) ==
    StylePrompts(deco, "Art Deco", desc, n)
        \o StylePrompts(minimal, "Minimalist", desc, n)
        \o StylePrompts(pave, "Pave", desc, n)

NumStyles(deco, minimal, pave) ==
    (IF deco THEN 1 ELSE 0) + (IF minimal THEN 1 ELSE 0) + (IF pave THEN 1 ELSE 0)

total_requested == Len(prompts_to_run)

(***************************************************************************)
(* Line 138: chunk = tasks[i:i+chunk_size], as the set of task numbers     *)
(* (tasks are numbered 1..len(tasks), i is 0-based).                       *)
(***************************************************************************)
ChunkAllRemaining(start, n) == (start + 1)..n

Chunk(start, n) == (start + 1)..Min(start + chunk_size, n)

\* line 155: min(completed / len(prompts_to_run), 1.0) as a fraction
ProgressValue(c, n) == IF c >= n THEN <<1, 1>> ELSE <<c, n>>

(***************************************************************************)
(* Line 174: f"redesign_{idx+1}.jpg" for the 0-based enumerate index idx,  *)
(* kept as its three parts.                                                *)
(***************************************************************************)
EntryNameZeroBased(idx) == <<"redesign_", idx, ".jpg">>

EntryName(idx) == <<"redesign_", idx + 1, ".jpg">>

\* lines 172-174: one writestr per result, in list order
BuildArchive(rs) == [k \in 1..Len(rs) |-> [name |-> EntryName(k - 1), data |-> rs[k]]]

(***************************************************************************)
(* Job states.  "created": coroutine object built, nothing sent (line 123).*)
(* "submitting": the coroutine runs inside gather, request on the wire.    *)
(* "submitted": submit returned a handle, the remote job is pending.       *)
(* "ready"/"error": the remote job finished.  "stored"/"stored_error"/     *)
(* "failed": the loop of lines 141-152 is through with the handler, having *)
(* appended the image, appended an error page, or caught an exception.     *)
(* "cancelled": the coroutine was torn down after gather raised.           *)
(***************************************************************************)
Appended == {"stored", "stored_error"}
Resolved == Appended \cup {"failed"}
InFlightStates == {"submitting", "submitted", "ready", "error"}
InFlight == {j \in DOMAIN job : job[j] \in InFlightStates}

WaveOf(j) == (j - 1) \div chunk_size

Init ==
    /\ uploaded_file \in BOOLEAN
    /\ fal_key \in {SidebarKey(a, s, e) :
                      a \in KeyValues, s \in KeyValues \cup {Unset},
                      e \in {Unset, "key"}}
    /\ batch_size \in BatchSizeOptions
    /\ style_art_deco \in BOOLEAN
    /\ style_minimal \in BOOLEAN
    /\ style_pave \in BOOLEAN
    /\ batch_size * NumStyles(style_art_deco, style_minimal, style_pave) <= MaxJobs
    /\ pc = "idle"
    /\ description = NoDescription
    /\ prompts_to_run = <<>>
    /\ job = <<>>
    /\ url_body = <<>>
    /\ i = 0
    /\ pos = 0
    /\ completed = 0
    /\ progress = <<0, 1>>
    /\ status_text = <<0, 0>>
    /\ results = <<>>
    /\ archive = <<>>
    /\ vision_calls = 0
    /\ gen_calls = 0
    /\ template = <<>>
    /\ prompt = <<>>
    /\ ppc = "off"

settings == <<uploaded_file, fal_key, batch_size, style_art_deco, style_minimal,
              style_pave>>

(***************************************************************************)
(* Lines 74-77: the button is only drawn when a file is uploaded; without  *)
(* a usable FAL_KEY the script run is stopped.                             *)
(***************************************************************************)
ClickGenerateNoCheck ==
    /\ pc = "idle"
    /\ uploaded_file
    /\ pc' = "vision"
    /\ UNCHANGED <<settings, description, prompts_to_run, job, url_body, i, pos, completed,
                   progress, status_text, results, archive, vision_calls, gen_calls,
                   parseVars>>

ClickGenerate ==
    /\ pc = "idle"
    /\ uploaded_file
    /\ pc' = IF KeyMissing(fal_key) THEN "stopped" ELSE "vision"
    /\ UNCHANGED <<settings, description, prompts_to_run, job, url_body, i, pos, completed,
                   progress, status_text, results, archive, vision_calls, gen_calls,
                   parseVars>>

(***************************************************************************)
(* Lines 80-95: one blocking request to the vision endpoint.  submit or    *)
(* get raising, or a reply without 'output', stops the run.                *)
(***************************************************************************)
VisionFails ==
    /\ pc = "vision"
    /\ vision_calls' = vision_calls + 1
    /\ pc' = "stopped"
    /\ UNCHANGED <<settings, description, prompts_to_run, job, url_body, i, pos, completed,
                   progress, status_text, results, archive, gen_calls, parseVars>>

(***************************************************************************)
(* Lines 89-135: the description arrives; the prompt list is built, the    *)
(* result list and the progress bar are reset, and run_generations builds  *)
(* one unstarted submit_async coroutine per prompt.                        *)
(***************************************************************************)
VisionSucceeds ==
    /\ pc = "vision"
    /\ vision_calls' = vision_calls + 1
    /\ \E d \in Descriptions :
         /\ description' = d
         /\ prompts_to_run' = PreparePrompts(d, batch_size, style_art_deco,
                                             style_minimal, style_pave)
    /\ job' = [j \in 1..Len(prompts_to_run') |-> "created"]
    /\ url_body' = [j \in 1..Len(prompts_to_run') |-> NoBytes]
    /\ results' = <<>>
    /\ progress' = <<0, 1>>
    /\ i' = 0
    /\ pos' = 0
    /\ completed' = 0
    /\ pc' = "loop"
    /\ UNCHANGED <<settings, status_text, archive, gen_calls, parseVars>>

(***************************************************************************)
(* Lines 137-139: next chunk; gather starts every coroutine of the chunk.  *)
(* When range() is exhausted run_generations returns.                      *)
(***************************************************************************)
StartWave ==
    /\ pc = "loop"
    /\ i < Len(job)
    /\ job' = [j \in DOMAIN job |->
                 IF j \in Chunk(i, Len(job)) THEN "submitting" ELSE job[j]]
    /\ gen_calls' = gen_calls + Cardinality(Chunk(i, Len(job)))
    /\ pos' = 0
    /\ pc' = "gather"
    /\ UNCHANGED <<settings, description, prompts_to_run, url_body, i, completed,
                   progress, status_text, results, archive, vision_calls, parseVars>>

RunReturns ==
    /\ pc = "loop"
    /\ i >= Len(job)
    /\ pc' = "done"
    /\ UNCHANGED <<settings, description, prompts_to_run, job, url_body, i, pos, completed,
                   progress, status_text, results, archive, vision_calls, gen_calls,
                   parseVars>>

(***************************************************************************)
(* A submit_async coroutine of the chunk returns its handle.  This also    *)
(* happens after a sibling raised, until asyncio.run tears the chunk down. *)
(***************************************************************************)
SubmitReturns(j) ==
    /\ pc \in {"gather", "unwinding"}
    /\ job[j] = "submitting"
    /\ job' = [job EXCEPT ![j] = "submitted"]
    /\ UNCHANGED <<settings, pc, description, prompts_to_run, url_body, i, pos, completed,
                   progress, status_text, results, archive, vision_calls, gen_calls,
                   parseVars>>

(***************************************************************************)
(* A submit_async coroutine raises.  gather (line 139, no                  *)
(* return_exceptions) hands the first exception to run_generations, which  *)
(* is woken up some event-loop turns later; until then the sibling         *)
(* coroutines keep running and may return or raise as well.                *)
(***************************************************************************)
SubmitRaises(j) ==
    /\ pc \in {"gather", "unwinding"}
    /\ job[j] = "submitting"
    /\ job' = [job EXCEPT ![j] = "failed"]
    /\ pc' = "unwinding"
    /\ UNCHANGED <<settings, description, prompts_to_run, url_body, i, pos, completed,
                   progress, status_text, results, archive, vision_calls, gen_calls,
                   parseVars>>

(***************************************************************************)
(* The exception leaves gather outside any try (line 139), then            *)
(* run_generations and asyncio.run (line 158), which cancels the           *)
(* coroutines that are still running.                                      *)
(***************************************************************************)
GatherRaises ==
    /\ pc = "unwinding"
    /\ job' = [k \in DOMAIN job |->
                 IF job[k] = "submitting" THEN "cancelled" ELSE job[k]]
    /\ pc' = "raised"
    /\ UNCHANGED <<settings, description, prompts_to_run, url_body, i, pos, completed,
                   progress, status_text, results, archive, vision_calls, gen_calls,
                   parseVars>>

\* gather returns once every coroutine of the chunk has returned
GatherReturns ==
    /\ pc = "gather"
    /\ \A j \in Chunk(i, Len(job)) : job[j] # "submitting"
    /\ pc' = "await"
    /\ UNCHANGED <<settings, description, prompts_to_run, job, url_body, i, pos, completed,
                   progress, status_text, results, archive, vision_calls, gen_calls,
                   parseVars>>

\* the remote service renders a pending job, in any order
RemoteCompletes(j) ==
    /\ pc \in {"gather", "unwinding", "await"}
    /\ job[j] = "submitted"
    /\ job' = [job EXCEPT ![j] = "ready"]
    /\ \E b \in Bytes : url_body' = [url_body EXCEPT ![j] = b]
    /\ UNCHANGED <<settings, pc, description, prompts_to_run, i, pos, completed,
                   progress, status_text, results, archive, vision_calls, gen_calls,
                   parseVars>>

\* the remote service gives up on a pending job, in any order
RemoteFails(j) ==
    /\ pc \in {"gather", "unwinding", "await"}
    /\ job[j] = "submitted"
    /\ job' = [job EXCEPT ![j] = "error"]
    /\ UNCHANGED <<url_body>>
    /\ UNCHANGED <<settings, pc, description, prompts_to_run, i, pos, completed,
                   progress, status_text, results, archive, vision_calls, gen_calls,
                   parseVars>>

CurrentReversed == Min(i + chunk_size, Len(job)) - pos

\* gather keeps the order of `chunk`: handler number pos belongs to task i+pos+1
Current == i + pos + 1

HandlerFails(j) ==
    /\ job' = [job EXCEPT ![j] = "failed"]
    /\ pos' = pos + 1
    /\ UNCHANGED <<settings, pc, description, prompts_to_run, url_body, i, completed,
                   progress, status_text, results, archive, vision_calls, gen_calls,
                   parseVars>>

(***************************************************************************)
(* Lines 141-152, one iteration of the for loop over batch_responses.      *)
(***************************************************************************)
\* line 143 raises: the remote job failed, or polling it failed
GetRaises ==
    /\ pc = "await"
    /\ pos < Cardinality(Chunk(i, Len(job)))
    /\ job[Current] \in {"submitted", "ready", "error"}
    /\ HandlerFails(Current)

\* line 144 raises: the reply has no images[0].url
MalformedReply ==
    /\ pc = "await"
    /\ pos < Cardinality(Chunk(i, Len(job)))
    /\ job[Current] = "ready"
    /\ HandlerFails(Current)

\* line 146 raises: the download fails in transport
DownloadRaises ==
    /\ pc = "await"
    /\ pos < Cardinality(Chunk(i, Len(job)))
    /\ job[Current] = "ready"
    /\ HandlerFails(Current)

\* line 150
AppendResult(rs, b) == Append(rs, b)

\* lines 143-150 succeed: the image behind the URL is downloaded and appended
StoreResult ==
    /\ pc = "await"
    /\ pos < Cardinality(Chunk(i, Len(job)))
    /\ job[Current] = "ready"
    /\ results' = AppendResult(results, url_body[Current])
    /\ job' = [job EXCEPT ![Current] = "stored"]
    /\ pos' = pos + 1
    /\ UNCHANGED <<settings, pc, description, prompts_to_run, url_body, i, completed,
                   progress, status_text, archive, vision_calls, gen_calls, parseVars>>

(***************************************************************************)
(* Line 146 again: requests.get does not raise on a non-2xx answer and the *)
(* code never looks at the status, so the error page is appended like an   *)
(* image.                                                                  *)
(***************************************************************************)
StoreErrorBody ==
    /\ pc = "await"
    /\ pos < Cardinality(Chunk(i, Len(job)))
    /\ job[Current] = "ready"
    /\ results' = AppendResult(results, ErrorBody)
    /\ job' = [job EXCEPT ![Current] = "stored_error"]
    /\ pos' = pos + 1
    /\ UNCHANGED <<settings, pc, description, prompts_to_run, url_body, i, completed,
                   progress, status_text, archive, vision_calls, gen_calls, parseVars>>

\* line 154: completed += len(chunk)
CompletedAfter(c, start, n) == c + Cardinality(Chunk(start, n))

\* lines 154-156 run after the first handler already
EndWaveEarly ==
    /\ pc = "await"
    /\ pos >= 1
    /\ completed' = CompletedAfter(completed, i, Len(job))
    /\ progress' = ProgressValue(completed', Len(prompts_to_run))
    /\ status_text' = <<Len(results), Len(prompts_to_run)>>
    /\ i' = i + chunk_size
    /\ pc' = "loop"
    /\ UNCHANGED <<settings, description, prompts_to_run, job, url_body, pos, results,
                   archive, vision_calls, gen_calls, parseVars>>

(***************************************************************************)
(* Lines 154-156, after the last handler of the chunk.                     *)
(***************************************************************************)
EndWave ==
    /\ pc = "await"
    /\ pos = Cardinality(Chunk(i, Len(job)))
    /\ completed' = CompletedAfter(completed, i, Len(job))
    /\ progress' = ProgressValue(completed', Len(prompts_to_run))
    /\ status_text' = <<Len(results), Len(prompts_to_run)>>
    /\ i' = i + chunk_size
    /\ pc' = "loop"
    /\ UNCHANGED <<settings, description, prompts_to_run, job, url_body, pos, results, archive,
                   vision_calls, gen_calls, parseVars>>

(***************************************************************************)
(* Lines 161-181: with at least one result the gallery is shown and the    *)
(* zip is built; with none nothing is offered.                             *)
(***************************************************************************)
Export ==
    /\ pc = "done"
    /\ results # <<>>
    /\ archive' = BuildArchive(results)
    /\ pc' = "exported"
    /\ UNCHANGED <<settings, description, prompts_to_run, job, url_body, i, pos, completed,
                   progress, status_text, results, vision_calls, gen_calls, parseVars>>

NothingToShow ==
    /\ pc = "done"
    /\ results = <<>>
    /\ pc' = "finished"
    /\ UNCHANGED <<settings, description, prompts_to_run, job, url_body, i, pos, completed,
                   progress, status_text, results, archive, vision_calls, gen_calls,
                   parseVars>>

Next ==
    \/ ClickGenerate
    \/ VisionFails
    \/ VisionSucceeds
    \/ StartWave
    \/ RunReturns
    \/ \E j \in DOMAIN job : SubmitReturns(j)
    \/ \E j \in DOMAIN job : SubmitRaises(j)
    \/ GatherRaises
    \/ GatherReturns
    \/ \E j \in DOMAIN job : RemoteCompletes(j)
    \/ \E j \in DOMAIN job : RemoteFails(j)
    \/ GetRaises
    \/ MalformedReply
    \/ DownloadRaises
    \/ StoreResult
    \/ StoreErrorBody
    \/ EndWave
    \/ Export
    \/ NothingToShow

Spec == Init /\ [][Next]_vars

(***************************************************************************)
(* The steps the interpreter takes on its own, without waiting for the     *)
(* user or for an answer from the network.  submit_async, get() and        *)
(* requests.get are called without a timeout, so nothing in the code makes *)
(* a pending call answer: only these steps are fair.                       *)
(***************************************************************************)
ProgramStep ==
    \/ StartWave
    \/ RunReturns
    \/ GatherRaises
    \/ GatherReturns
    \/ EndWave
    \/ Export
    \/ NothingToShow

FairSpec == Spec /\ WF_vars(ProgramStep)

(***************************************************************************)
(* parse_dynamic_prompt (lines 26-37).  A string is a sequence of          *)
(* one-character strings.                                                  *)
(***************************************************************************)
Alphabet == {"[", "]", "|", " ", "\n", "a", "b"}
Whitespace == {" ", "\n"}            \* what str.strip() removes, within Alphabet

Templates == UNION {[1..n -> Alphabet] : n \in 0..MaxLen}

\* `c in s`
Contains(s, c) == \E k \in 1..Len(s) : s[k] = c

SetMin(S) == CHOOSE x \in S : \A y \in S : x <= y

\* s[a..b], empty when b < a
Slice(s, a, b) == [k \in 1..(b - a + 1) |-> s[a + k - 1]]

(***************************************************************************)
(* re.search(r'\[(.*?)\]', s), line 32.  "." matches any character but the *)
(* line break and ".*?" is lazy, so a match starting at a "[" ends at the  *)
(* first "]" after it, and only if no line break lies in between; search   *)
(* returns the leftmost start that matches.                                *)
(***************************************************************************)
MatchEnd(s, p) ==
    LET closers == {q \in (p + 1)..Len(s) : s[q] = "]"}
        q == SetMin(closers)
    IN  IF closers = {} THEN 0
        ELSE IF \E r \in (p + 1)..(q - 1) : s[r] = "\n" THEN 0
        ELSE q

MatchStarts(s) == {p \in 1..Len(s) : s[p] = "[" /\ MatchEnd(s, p) # 0}

HasMatch(s) == MatchStarts(s) # {}

\* match.group(0) and match.group(1)
Group0(s) ==
    LET p == SetMin(MatchStarts(s)) IN Slice(s, p, MatchEnd(s, p))

Group1(s) ==
    LET p == SetMin(MatchStarts(s)) IN Slice(s, p + 1, MatchEnd(s, p) - 1)

\* s.split('|'), line 34: always at least one piece
RECURSIVE Split(_)
Split(s) ==
    LET bars == {k \in 1..Len(s) : s[k] = "|"}
    IN  IF bars = {} THEN <<s>>
        ELSE <<Slice(s, 1, SetMin(bars) - 1)>>
                 \o Split(Slice(s, SetMin(bars) + 1, Len(s)))

\* s.strip(), line 35
Strip(s) ==
    LET keep == {k \in 1..Len(s) : s[k] \notin Whitespace}
    IN  IF keep = {} THEN <<>>
        ELSE Slice(s, SetMin(keep), CHOOSE x \in keep : \A y \in keep : y <= x)

\* s.replace(old, new, 1), line 36: the first occurrence of old, if any
Replace1(s, old, new) ==
    LET occ == {k \in 1..(Len(s) - Len(old) + 1) :
                   Slice(s, k, k + Len(old) - 1) = old}
    IN  IF occ = {} THEN s
        ELSE Slice(s, 1, SetMin(occ) - 1) \o new
                 \o Slice(s, SetMin(occ) + Len(old), Len(s))

InitParse ==
    /\ template \in Templates
    /\ prompt = template
    /\ ppc = "test"
    /\ uploaded_file = FALSE
    /\ fal_key = Unset
    /\ batch_size = 1
    /\ style_art_deco = FALSE
    /\ style_minimal = FALSE
    /\ style_pave = FALSE
    /\ pc = "idle"
    /\ description = NoDescription
    /\ prompts_to_run = <<>>
    /\ job = <<>>
    /\ url_body = <<>>
    /\ i = 0
    /\ pos = 0
    /\ completed = 0
    /\ progress = <<0, 1>>
    /\ status_text = <<0, 0>>
    /\ results = <<>>
    /\ archive = <<>>
    /\ vision_calls = 0
    /\ gen_calls = 0

\* line 31, test true: enter the loop body
WhileEnter ==
    /\ ppc = "test"
    /\ Contains(prompt, "[") /\ Contains(prompt, "]")
    /\ ppc' = "body"
    /\ UNCHANGED <<template, prompt, batchVars>>

\* line 31, test false, and line 37: return prompt
WhileExit ==
    /\ ppc = "test"
    /\ ~(Contains(prompt, "[") /\ Contains(prompt, "]"))
    /\ ppc' = "done"
    /\ UNCHANGED <<template, prompt, batchVars>>

\* lines 32-36 with a match: one alternative, stripped, replaces the group
BodyReplace ==
    /\ ppc = "body"
    /\ HasMatch(prompt)
    /\ \E k \in 1..Len(Split(Group1(prompt))) :
          prompt' = Replace1(prompt, Group0(prompt), Strip(Split(Group1(prompt))[k]))
    /\ ppc' = "test"
    /\ UNCHANGED <<template, batchVars>>

\* lines 32-33 without a match: nothing changes and the test runs again
BodyNoMatch ==
    /\ ppc = "body"
    /\ ~HasMatch(prompt)
    /\ ppc' = "test"
    /\ UNCHANGED <<template, prompt, batchVars>>

NextParse == WhileEnter \/ WhileExit \/ BodyReplace \/ BodyNoMatch

SpecParse == InitParse /\ [][NextParse]_vars

\* the interpreter keeps executing the function
FairParse == SpecParse /\ WF_vars(NextParse)

(***************************************************************************)
(* Properties of the batch run.                                            *)
(***************************************************************************)
RunOver == pc \in {"done", "exported", "finished"}
NumFailed == Cardinality({j \in DOMAIN job : job[j] \in {"failed", "stored_error"}})

\* the bodies appended for tasks 1..n, in task order
RECURSIVE AppendedUpTo(_)
AppendedUpTo(n) ==
    IF n = 0 THEN <<>>
    ELSE AppendedUpTo(n - 1) \o
         (IF job[n] = "stored" THEN <<url_body[n]>>
          ELSE IF job[n] = "stored_error" THEN <<ErrorBody>>
          ELSE <<>>)

\* C1: no task of a later wave has been started (submitted or awaited) while a
\* task of an earlier wave is still unresolved, i.e. neither appended nor failed.
C1_WavesSequential ==
    \A a, b \in DOMAIN job :
        (WaveOf(a) < WaveOf(b) /\ job[b] # "created") => job[a] \in Resolved

\* a task of the second wave is on its way after a first wave with a failure
C1_Witness ==
    /\ \E b \in DOMAIN job : WaveOf(b) = 1 /\ job[b] \in InFlightStates
    /\ \E a \in DOMAIN job : WaveOf(a) = 0 /\ job[a] = "failed"
    /\ \E a \in DOMAIN job : WaveOf(a) = 0 /\ job[a] = "stored"

\* C2: a batch in which exactly one job failed never raises, and once it is over
\* it holds the other N-1 images and completed has reached N (progress 1.0).
C2_OneFailureDoesNotAbort ==
    NumFailed = 1 =>
        /\ pc # "raised"
        /\ RunOver => /\ Len(results) = Len(job) - 1
                      /\ completed = Len(job)
                      /\ progress = <<1, 1>>

\* C3: no two entries of results have the same content.
C3_NoDuplicateResults ==
    \A a, b \in 1..Len(results) : a # b => results[a] # results[b]

\* C4: at most chunk_size tasks are in flight (request sent, handler neither
\* appended nor failed) at any time.
C4_BoundedInFlight == Cardinality(InFlight) <= chunk_size

\* a full wave is in flight in a batch larger than the limit
C4_Witness == Cardinality(InFlight) = chunk_size /\ Len(job) > chunk_size

\* C5: completed never exceeds total_requested; after each wave it is what the
\* progress bar shows and counts every handled job, failed ones included; it
\* never decreases; and a run that reaches the generation loop ends with
\* completed = total_requested unless an exception aborts it.
C5_CompletedCount ==
    /\ [](/\ completed <= total_requested
          /\ (pc = "loop" /\ i > 0) =>
                /\ progress = ProgressValue(completed, total_requested)
                /\ completed = Cardinality({j \in DOMAIN job : job[j] \in Resolved}))
    /\ [][completed' >= completed]_vars
    /\ (pc = "loop") ~> (pc = "raised" \/ (RunOver /\ completed = total_requested))

\* C8 as stated: entry number k is named variation_<k>.jpg and holds result k.
C8_ArchiveNamedVariation ==
    pc = "exported" =>
        /\ Len(archive) = Len(results)
        /\ \A k \in 1..Len(archive) :
              /\ archive[k].name = <<"variation_", k, ".jpg">>
              /\ archive[k].data = results[k]

\* C8, amended: entry number k is named redesign_<k>.jpg and holds result k, so
\* the archive has exactly len(results) entries with distinct names.
C8_ArchiveNamedRedesign ==
    pc = "exported" =>
        /\ Len(archive) = Len(results)
        /\ \A k \in 1..Len(archive) :
              /\ archive[k].name = <<"redesign_", k, ".jpg">>
              /\ archive[k].data = results[k]
        /\ \A k, m \in 1..Len(archive) : k # m => archive[k].name # archive[m].name

\* an archive of three or more entries has been built
C8_Witness == pc = "exported" /\ Len(archive) >= 3 /\ Len(archive) = Len(results)

\* C9: with FAL_KEY unset or empty no request is ever issued and nothing is
\* produced: the handler stops at the credential check.
C9_NoKeyNoNetwork ==
    KeyMissing(fal_key) =>
        /\ vision_calls = 0
        /\ gen_calls = 0
        /\ results = <<>>
        /\ archive = <<>>
        /\ pc \in {"idle", "stopped"}

\* the button was pressed with an empty FAL_KEY and the run was stopped
C9_Witness == fal_key = "" /\ uploaded_file /\ pc = "stopped"

\* C10: results is, at every point, the sequence of bodies appended for the
\* tasks handled so far, in the order of the tasks in prompts_to_run.
C10_SubmissionOrder == results = AppendedUpTo(Len(job))

\* two different images of one wave are in results while, later in that wave, a
\* task is still being rendered and the task after it is already finished
C10_Witness ==
    /\ \E a, b \in DOMAIN job :
          /\ a < b
          /\ job[a] = "stored" /\ job[b] = "stored"
          /\ url_body[a] # url_body[b]
    /\ \E c, d \in DOMAIN job :
          /\ c < d
          /\ job[c] = "submitted" /\ job[d] = "ready"
    /\ Len(results) = 2

(***************************************************************************)
(* Properties of parse_dynamic_prompt.                                     *)
(***************************************************************************)
NoBrackets(s) == ~Contains(s, "[") /\ ~Contains(s, "]")

\* the brackets of t alternate "[", "]", "[", "]", ...: every bracket belongs to
\* a group that is closed and not nested
RECURSIVE Alternates(_, _)
Alternates(t, open) ==
    IF t = <<>> THEN ~open
    ELSE IF Head(t) = "[" THEN ~open /\ Alternates(Tail(t), TRUE)
    ELSE IF Head(t) = "]" THEN open /\ Alternates(Tail(t), FALSE)
    ELSE Alternates(Tail(t), open)

BalancedGroups(t) == Alternates(t, FALSE)

\* no "[" of t has a "]" after it
ZeroGroups(t) ==
    ~\E p, q \in 1..Len(t) : p < q /\ t[p] = "[" /\ t[q] = "]"

\* C6: called on a template whose bracket groups are balanced, the function
\* returns, and what it returns has no bracket left.
C6_BalancedTerminates ==
    (ppc = "test" /\ prompt = template /\ BalancedGroups(template))
        ~> (ppc = "done" /\ NoBrackets(prompt))

\* C7: called on a template without any bracket group, stray brackets in any
\* order included, the function returns the template unchanged.
C7_ZeroGroupsUnchanged ==
    (ppc = "test" /\ prompt = template /\ ZeroGroups(template))
        ~> (ppc = "done" /\ prompt = template)

====
